---- MODULE Spec2Model ----
(***************************************************************************)
(* Model of json2geo.py: the GeometryTypes flag lookup, the ring           *)
(* orientation functions, the GeoJSONParser (validation, extraction with   *)
(* an optional limit, save) and the main pipeline.                         *)
(*                                                                         *)
(* JSON values are tagged records of one shape per role, so that values    *)
(* of different JSON types stay comparable:                                *)
(*   geometry  [k, type, polys]      k: "absent" (no key), "null",         *)
(*             "scalar" (a non-mapping, non-null value), "notype" (a       *)
(*             mapping without 'type'), "dict" (a mapping with 'type').    *)
(*             polys is the coordinates of a Polygon (one polygon) or of   *)
(*             a MultiPolygon (its polygons); each polygon is a sequence   *)
(*             of rings, each ring a sequence of <<x, y>> points.          *)
(*   object    [dict, type, props, geometry, fk, features]   type "" means *)
(*             no 'type' key; fk tells whether 'features' is absent, a     *)
(*             non-list or a list.                                         *)
(*   record    [k, has, pg]   k: "dict", "scalar" (a value on which `in`   *)
(*             raises), "seq" (a list or string); has: the result of       *)
(*             'property_geojson' in record.                               *)
(*   document  [k, has_data, data_k, data, has, pg]                        *)
(***************************************************************************)
EXTENDS Integers, Sequences, FiniteSets, TLC

\* ------------------------------------------------------------------ bounds
MaxCoord == 1
MaxRingLen == 4
MaxRings == 2
MaxPolys == 2
MaxFixCalls == 2
MaxLimit == 2
MaxRecords == 3

\* ------------------------------------------------------- GeometryTypes flag
NONE == 0
POINT == 1
LINESTRING == 2
POLYGON == 4
MULTIPOINT == 8
MULTILINESTRING == 16
MULTIPOLYGON == 32
GEOMETRYCOLLECTION == 64
ALL == 127

\* The members of the enumeration by attribute name.
GeometryTypes ==
  [ NONE |-> NONE, POINT |-> POINT, LINESTRING |-> LINESTRING,
    POLYGON |-> POLYGON, MULTIPOINT |-> MULTIPOINT,
    MULTILINESTRING |-> MULTILINESTRING, MULTIPOLYGON |-> MULTIPOLYGON,
    GEOMETRYCOLLECTION |-> GEOMETRYCOLLECTION, ALL |-> ALL ]

\* str.upper() on the geometry type names the model uses.
upper ==
  [ Point |-> "POINT", point |-> "POINT", LineString |-> "LINESTRING",
    Polygon |-> "POLYGON", polygon |-> "POLYGON", MultiPoint |-> "MULTIPOINT",
    MultiLineString |-> "MULTILINESTRING", MultiPolygon |-> "MULTIPOLYGON",
    GeometryCollection |-> "GEOMETRYCOLLECTION",
    All |-> "ALL", None |-> "NONE", Circle |-> "CIRCLE" ]

TypeNames == DOMAIN upper

RECURSIVE BitAnd(_, _)
\* Flag.__and__ : bitwise and of the two flag values.
BitAnd(a, b) ==
  IF a = 0 \/ b = 0 THEN 0
  ELSE (IF a % 2 = 1 /\ b % 2 = 1 THEN 1 ELSE 0) + 2 * BitAnd(a \div 2, b \div 2)

\* getattr(GeometryTypes, geometry_type.upper(), GeometryTypes.NONE)
type_flag(geometry_type) ==
  IF upper[geometry_type] \in DOMAIN GeometryTypes
  THEN GeometryTypes[upper[geometry_type]]
  ELSE NONE

\* ------------------------------------------------------ ring orientation
RECURSIVE AreaSum(_, _)
\* The loop of calculate_area: sum over i in 0..len-2 (here 1..len-1).
AreaSum(ring, i) ==
  IF i >= Len(ring) THEN 0
  ELSE ring[i][1] * ring[i + 1][2] - ring[i + 1][1] * ring[i][2]
       + AreaSum(ring, i + 1)

\* calculate_area returns AreaSum / 2; twice the area keeps it an integer
\* and has the same sign.
calculate_area2(ring) == AreaSum(ring, 1)

\* list.reverse()
reverse_ring(ring) == [i \in 1..Len(ring) |-> ring[Len(ring) + 1 - i]]

\* A slip: every ring is held to the exterior rule.
WrongOrientationAllExterior(ring, i) == calculate_area2(ring) < 0

\* A slip: non-strict comparisons, so that a ring of zero area is reversed.
WrongOrientationNonStrict(ring, i) ==
  IF i = 1 THEN calculate_area2(ring) <= 0 ELSE calculate_area2(ring) >= 0

\* The test that decides whether ring number i (1 = exterior) is reversed.
WrongOrientation(ring, i) ==
  IF i = 1 THEN calculate_area2(ring) < 0 ELSE calculate_area2(ring) > 0

\* fix_polygon_orientation: the coordinates after the call, the returned
\* flag and the set of ring indexes that were reversed.
fix_polygon_orientation(coordinates) ==
  LET rev == {i \in 1..Len(coordinates) : WrongOrientation(coordinates[i], i)}
  IN [ coordinates |-> [i \in 1..Len(coordinates) |->
                          IF i \in rev THEN reverse_ring(coordinates[i])
                          ELSE coordinates[i]],
       changed |-> rev # {},
       reversed |-> rev ]

\* 'not geometry or "type" not in geometry' for the geometry values of the
\* model: a missing, null or type-less geometry.
NoTypedGeometry(geometry) == geometry.k # "dict"

\* fix_geometry_orientation: the geometry after the call and the flag.
fix_geometry_orientation(geometry) ==
  IF NoTypedGeometry(geometry) THEN [geometry |-> geometry, changed |-> FALSE]
  ELSE IF geometry.type = "Polygon" THEN
    LET r == fix_polygon_orientation(geometry.polys[1])
    IN [ geometry |-> [geometry EXCEPT !.polys = <<r.coordinates>>],
         changed |-> r.changed ]
  ELSE IF geometry.type = "MultiPolygon" THEN
    LET rs == [p \in 1..Len(geometry.polys) |->
                 fix_polygon_orientation(geometry.polys[p])]
    IN [ geometry |-> [geometry EXCEPT !.polys =
                         [p \in 1..Len(geometry.polys) |-> rs[p].coordinates]],
         changed |-> \E p \in 1..Len(geometry.polys) : rs[p].changed ]
  ELSE [geometry |-> geometry, changed |-> FALSE]

\* ------------------------------------------------------------ GeoJSONParser
VARIABLES
  limit,            \* self.limit: [set |-> FALSE, val |-> 0] is None
  require_geometry, \* self.require_geometry
  geometry_types,   \* self.geometry_types, as the integer value of the flag
  features,         \* self.features
  json_data,        \* the document json.load returned in parse_file
  pc,               \* position in main / parse_file
  item_index,       \* number of elements of json_data['data'] already visited
  calls,            \* arguments of the extract_features calls so far:
                    \*   0 is the document itself, n > 0 is data[n]
  parse_failed,     \* parse_file reached its except branch
  parsed,           \* self.features when parse_file returned
  main_fixed,       \* fixed_count of main
  save_fixed,       \* fixed_count of save_geojson
  written,          \* save_geojson reached json.dump
  output,           \* the features of the FeatureCollection given to json.dump
  fix_arg,          \* argument of a direct fix_geometry_orientation call
  fix_calls,        \* number of direct calls made on fix_arg
  fix_ret,          \* the values returned by these calls, in order
  fix_history,      \* fix_arg before the first call and after each call
  poly_pc,          \* position in a direct fix_polygon_orientation call
  ring_no,          \* number of rings of its argument already visited
  ring_before,      \* the ring visited last, as it was
  ring_after,       \* the ring visited last, as the visit left it
  changed,          \* the local `changed` of fix_polygon_orientation
  any_reversed,     \* some visited ring has another vertex order than before
  poly_ret          \* the value fix_polygon_orientation returned

vars == << limit, require_geometry, geometry_types, features, json_data, pc,
           item_index, calls, parse_failed, parsed, main_fixed, save_fixed,
           written, output, fix_arg, fix_calls, fix_ret, fix_history, poly_pc,
           ring_no, ring_before, ring_after, changed, any_reversed, poly_ret >>

parser_vars == << limit, require_geometry, geometry_types, features, json_data,
                  pc, item_index, calls, parse_failed, parsed, main_fixed,
                  save_fixed, written, output >>

fix_vars == << fix_arg, fix_calls, fix_ret, fix_history >>

poly_vars == << poly_pc, ring_no, ring_before, ring_after, changed,
                any_reversed, poly_ret >>

\* Python truthiness of self.limit: None and 0 are both false.
limit_truthy == limit.set /\ limit.val # 0

\* 'if self.limit and len(self.features) >= self.limit'
limit_reached(feats) == limit_truthy /\ Len(feats) >= limit.val

\* 'geometry' in obj and obj['geometry'] is not None
has_geometry(obj) == obj.geometry.k \notin {"absent", "null"}

\* is_valid_geojson
is_valid_geojson(data) ==
  IF ~data.dict THEN FALSE
  ELSE IF data.type = "" THEN FALSE
  ELSE IF data.type = "Feature"
    THEN data.props /\ (~require_geometry \/ has_geometry(data))
  ELSE IF data.type = "FeatureCollection" THEN data.fk = "list"
  ELSE TRUE

\* is_valid_feature returns without reaching the geometry type check.
feature_decided_early(feature) ==
  \/ ~feature.dict \/ feature.type = ""
  \/ ~feature.props \/ (require_geometry /\ ~has_geometry(feature))
  \/ (~has_geometry(feature) /\ ~require_geometry)

\* is_valid_feature raises: geometry['type'] on a value that is no mapping
\* (TypeError) or on a mapping without the key (KeyError).
is_valid_feature_raises(feature) ==
  /\ ~feature_decided_early(feature)
  /\ feature.geometry.k # "dict"

\* bool(self.geometry_types & type_flag)
type_selected(geometry_type) ==
  BitAnd(geometry_types, type_flag(geometry_type)) # 0

\* is_valid_feature, where it returns.
is_valid_feature(feature) ==
  IF ~feature.dict \/ feature.type = "" THEN FALSE
  ELSE IF ~feature.props \/ (require_geometry /\ ~has_geometry(feature))
    THEN FALSE
  ELSE IF ~has_geometry(feature) /\ ~require_geometry THEN TRUE
  ELSE type_selected(feature.geometry.type)

\* [f for f in seq if self.is_valid_feature(f)]
RECURSIVE valid_features(_)
valid_features(seq) ==
  IF seq = << >> THEN << >>
  ELSE IF is_valid_feature(Head(seq))
    THEN << Head(seq) >> \o valid_features(Tail(seq))
  ELSE valid_features(Tail(seq))

\* seq[:n] for n >= 0
Take(seq, n) == SubSeq(seq, 1, IF n < Len(seq) THEN n ELSE Len(seq))

\* extract_features: the features after the call and whether it raised.
extract_features(feats, data) ==
  IF limit_reached(feats) THEN [features |-> feats, raised |-> FALSE]
  ELSE IF data.k = "scalar" THEN [features |-> feats, raised |-> TRUE]
  ELSE IF ~data.has THEN [features |-> feats, raised |-> FALSE]
  ELSE IF data.k = "seq" THEN [features |-> feats, raised |-> TRUE]
  ELSE IF ~is_valid_geojson(data.pg) THEN [features |-> feats, raised |-> FALSE]
  ELSE IF data.pg.type = "Feature" THEN
    IF is_valid_feature_raises(data.pg) THEN [features |-> feats, raised |-> TRUE]
    ELSE IF is_valid_feature(data.pg) /\ (~limit_truthy \/ Len(feats) < limit.val)
      THEN [features |-> Append(feats, data.pg), raised |-> FALSE]
    ELSE [features |-> feats, raised |-> FALSE]
  ELSE IF data.pg.type = "FeatureCollection" THEN
    IF \E n \in 1..Len(data.pg.features) :
         is_valid_feature_raises(data.pg.features[n])
      THEN [features |-> feats, raised |-> TRUE]
    ELSE IF limit_truthy
      THEN [features |-> feats \o Take(valid_features(data.pg.features),
                                       limit.val - Len(feats)),
            raised |-> FALSE]
    ELSE [features |-> feats \o valid_features(data.pg.features),
          raised |-> FALSE]
  ELSE [features |-> feats, raised |-> FALSE]

\* ------------------------------------------------------------- JSON values
Geom(k, type, polys) == [k |-> k, type |-> type, polys |-> polys]

NoGeometry == Geom("absent", "", << >>)

Obj(dict, type, props, geom, fk, feats) ==
  [ dict |-> dict, type |-> type, props |-> props, geometry |-> geom,
    fk |-> fk, features |-> feats ]

\* {"type": "Feature", "properties": {}, "geometry": geom}
Feature(geom) == Obj(TRUE, "Feature", TRUE, geom, "absent", << >>)

\* {"type": "FeatureCollection", "features": feats}
FeatureCollection(feats) ==
  Obj(TRUE, "FeatureCollection", FALSE, NoGeometry, "list", feats)

NoObj == Obj(FALSE, "", FALSE, NoGeometry, "absent", << >>)

\* {"property_geojson": pg}
Rec(pg) == [k |-> "dict", has |-> TRUE, pg |-> pg]

\* The exterior ring of Scenario B (clockwise) and its reverse.
RingCW == << <<0, 0>>, <<0, 1>>, <<1, 1>>, <<1, 0>>, <<0, 0>> >>
RingCCW == << <<0, 0>>, <<1, 0>>, <<1, 1>>, <<0, 1>>, <<0, 0>> >>

fPoint == Feature(Geom("dict", "Point", << >>))
fLowerPoint == Feature(Geom("dict", "point", << >>))
fLine == Feature(Geom("dict", "LineString", << >>))
fPolyCW == Feature(Geom("dict", "Polygon", << << RingCW >> >>))
fMultiPoly ==
  Feature(Geom("dict", "MultiPolygon", << << RingCCW, RingCCW >>, << RingCCW >> >>))
fNoGeom == Feature(NoGeometry)
fAll == Feature(Geom("dict", "All", << >>))
fCircle == Feature(Geom("dict", "Circle", << >>))
fNoProps == Obj(TRUE, "Feature", FALSE, Geom("dict", "Point", << >>), "absent", << >>)
fGeomNoType == Feature(Geom("notype", "", << >>))
fGeomScalar == Feature(Geom("scalar", "", << >>))

\* The elements a `data` array is built from.
Records ==
  { Rec(fPoint), Rec(fPolyCW), Rec(fNoGeom),
    Rec(FeatureCollection(<< fLine, fMultiPoly, fLowerPoint >>)),
    Rec(fAll), Rec(fCircle), Rec(fNoProps), Rec(fGeomNoType),
    Rec(FeatureCollection(<< fPoint, fGeomScalar, fPolyCW >>)),
    Rec(Obj(FALSE, "", FALSE, NoGeometry, "absent", << >>)),
    Rec(Obj(TRUE, "Other", FALSE, NoGeometry, "absent", << >>)),
    [k |-> "dict", has |-> FALSE, pg |-> NoObj],
    [k |-> "scalar", has |-> FALSE, pg |-> NoObj] }

\* The strings met when iterating a mapping (its keys) or a string.
StrItem(has) == [k |-> "seq", has |-> has, pg |-> NoObj]

SeqsUpTo(S, n) == UNION {[1..m -> S] : m \in 0..n}

Doc(k, has_data, data_k, data, has, pg) ==
  [ k |-> k, has_data |-> has_data, data_k |-> data_k, data |-> data,
    has |-> has, pg |-> pg ]

NoDoc == Doc("none", FALSE, "list", << >>, FALSE, NoObj)

\* Every document of the model: what json.load returns, or "unreadable"
\* when open or json.load raises.
Documents ==
  \* {"data": [record, ...]}
  { Doc("dict", TRUE, "list", d, FALSE, NoObj) : d \in SeqsUpTo(Records, MaxRecords) }
  \cup \* a mapping without `data`
  { Doc("dict", FALSE, "list", << >>, r.has, r.pg) : r \in {x \in Records : x.k = "dict"} }
  \cup \* `data` is a mapping (iterated by key), with and without a fragment
  { Doc("dict", TRUE, "dict", << StrItem(h) >>, p, IF p THEN fPoint ELSE NoObj) :
      h \in BOOLEAN, p \in BOOLEAN }
  \cup \* `data` is a number or null, with and without a fragment
  { Doc("dict", TRUE, "scalar", << >>, p, IF p THEN fPoint ELSE NoObj) : p \in BOOLEAN }
  \cup \* a top-level list or string, a top-level number, an unreadable file
  { Doc("seq", FALSE, "list", << >>, h, NoObj) : h \in BOOLEAN }
  \cup { Doc("scalar", FALSE, "list", << >>, FALSE, NoObj),
         Doc("unreadable", FALSE, "list", << >>, FALSE, NoObj) }

\* The document as the argument of extract_features.
AsRecord(doc) == [k |-> doc.k, has |-> doc.has, pg |-> doc.pg]

NoLimit == [set |-> FALSE, val |-> 0]

Limits == {NoLimit} \cup {[set |-> TRUE, val |-> v] : v \in 0..MaxLimit}

\* The geometry_types values of the model: nothing, Point only (Scenario C),
\* Polygon and MultiPolygon, everything (the default).
Masks == {NONE, POINT, POLYGON + MULTIPOLYGON, ALL}

\* --------------------------------------------------------------- pipeline
\* 'geometry' in feature and feature['geometry']: a falsy geometry (null,
\* empty) is skipped, and fix_geometry_orientation returns False for any
\* geometry without 'type'.
fix_applies(feature) == feature.geometry.k \notin {"absent", "null"}

\* The orientation loop of main and of save_geojson: the features after the
\* loop and fixed_count.
fix_features(feats) ==
  LET rs == [n \in 1..Len(feats) |->
               IF fix_applies(feats[n])
               THEN fix_geometry_orientation(feats[n].geometry)
               ELSE [geometry |-> feats[n].geometry, changed |-> FALSE]]
  IN [ features |-> [n \in 1..Len(feats) |->
                       [feats[n] EXCEPT !.geometry = rs[n].geometry]],
       fixed_count |-> Cardinality({n \in 1..Len(feats) : rs[n].changed}) ]

\* No direct fix_polygon_orientation call is under way.
PolyIdle ==
  /\ poly_pc = "idle"
  /\ ring_no = 0
  /\ ring_before = << >>
  /\ ring_after = << >>
  /\ changed = FALSE
  /\ any_reversed = FALSE
  /\ poly_ret = FALSE

\* GeoJSONParser(limit, require_geometry, geometry_types), no call made yet.
Init ==
  /\ limit \in Limits
  /\ require_geometry \in BOOLEAN
  /\ geometry_types \in Masks
  /\ features = << >>
  /\ json_data = NoDoc
  /\ pc = "parse"
  /\ item_index = 0
  /\ calls = << >>
  /\ parse_failed = FALSE
  /\ parsed = << >>
  /\ main_fixed = 0
  /\ save_fixed = 0
  /\ written = FALSE
  /\ output = << >>
  /\ fix_arg = NoGeometry
  /\ fix_calls = 0
  /\ fix_ret = << >>
  /\ fix_history = << >>
  /\ PolyIdle

\* parse_file leaves through its except branch: the message is printed and
\* main goes on.
parse_file_except ==
  /\ parse_failed' = TRUE
  /\ parsed' = features'
  /\ pc' = "fix"

\* parse_file returns normally.
parse_file_return ==
  /\ parse_failed' = FALSE
  /\ parsed' = features'
  /\ pc' = "fix"

\* parse_file up to the dispatch on the shape of the document.
parse_file_load ==
  /\ pc = "parse"
  /\ \E doc \in Documents :
       /\ json_data' = doc
       /\ IF doc.k = "unreadable" \/ (doc.k = "dict" /\ doc.has_data /\ doc.data_k = "scalar")
          THEN /\ features' = features
               /\ parse_file_except
          ELSE /\ pc' = (IF doc.k = "dict" /\ doc.has_data THEN "loop" ELSE "self")
               /\ UNCHANGED << features, parse_failed, parsed >>
  /\ UNCHANGED << limit, require_geometry, geometry_types, item_index, calls,
                  main_fixed, save_fixed, written, output >>
  /\ UNCHANGED << fix_vars, poly_vars >>

\* One iteration of 'for item in json_data["data"]'.
parse_file_item ==
  /\ pc = "loop"
  /\ item_index < Len(json_data.data)
  /\ ~limit_reached(features)
  /\ LET r == extract_features(features, json_data.data[item_index + 1])
     IN /\ features' = r.features
        /\ calls' = Append(calls, item_index + 1)
        /\ item_index' = item_index + 1
        /\ IF r.raised THEN parse_file_except
           ELSE UNCHANGED << pc, parse_failed, parsed >>
  /\ UNCHANGED << limit, require_geometry, geometry_types, json_data,
                  main_fixed, save_fixed, written, output >>
  /\ UNCHANGED << fix_vars, poly_vars >>

\* The loop ends: the sequence is exhausted or the limit check breaks.
parse_file_loop_end ==
  /\ pc = "loop"
  /\ item_index = Len(json_data.data) \/ limit_reached(features)
  /\ features' = features
  /\ parse_file_return
  /\ UNCHANGED << limit, require_geometry, geometry_types, json_data,
                  item_index, calls, main_fixed, save_fixed, written, output >>
  /\ UNCHANGED << fix_vars, poly_vars >>

\* The else branch: self.extract_features(json_data).
parse_file_self ==
  /\ pc = "self"
  /\ LET r == extract_features(features, AsRecord(json_data))
     IN /\ features' = r.features
        /\ calls' = Append(calls, 0)
        /\ IF r.raised THEN parse_file_except ELSE parse_file_return
  /\ UNCHANGED << limit, require_geometry, geometry_types, json_data,
                  item_index, main_fixed, save_fixed, written, output >>
  /\ UNCHANGED << fix_vars, poly_vars >>

\* main, after parse_file: the orientation loop over geojson_parser.features.
main_fix ==
  /\ pc = "fix"
  /\ LET r == fix_features(features)
     IN /\ features' = r.features
        /\ main_fixed' = r.fixed_count
  /\ pc' = "save"
  /\ UNCHANGED << limit, require_geometry, geometry_types, json_data,
                  item_index, calls, parse_failed, parsed, save_fixed,
                  written, output >>
  /\ UNCHANGED << fix_vars, poly_vars >>

\* save_geojson: its own orientation loop, then the write, which succeeds
\* (io_ok) or raises inside mkdir/open and is reported.
save_geojson ==
  /\ pc = "save"
  /\ \E io_ok \in BOOLEAN :
       LET r == fix_features(features)
       IN /\ features' = r.features
          /\ save_fixed' = r.fixed_count
          /\ written' = io_ok
          /\ output' = (IF io_ok THEN r.features ELSE << >>)
  /\ pc' = "done"
  /\ UNCHANGED << limit, require_geometry, geometry_types, json_data,
                  item_index, calls, parse_failed, parsed, main_fixed >>
  /\ UNCHANGED << fix_vars, poly_vars >>

Next ==
  \/ parse_file_load
  \/ parse_file_item
  \/ parse_file_loop_end
  \/ parse_file_self
  \/ main_fix
  \/ save_geojson

Spec == Init /\ [][Next]_vars

\* ----------------------------------- fix_geometry_orientation, called alone
\* A ring of zero area that is not its own reverse.
RingFlat == << <<0, 0>>, <<1, 1>>, <<2, 2>>, <<3, 3>> >>

FixRings == {RingCW, RingCCW, RingFlat}

SeqsFromTo(S, lo, hi) == UNION {[1..m -> S] : m \in lo..hi}

\* Coordinates of a Polygon: at least the exterior ring.
FixPolygons == SeqsFromTo(FixRings, 1, MaxRings)

\* The arguments of the direct calls: Polygons, MultiPolygons, geometries of
\* other kinds ('polygon' is no Polygon for the == of the code), None and {}.
FixGeometries ==
  { Geom("dict", "Polygon", << p >>) : p \in FixPolygons }
  \cup { Geom("dict", "MultiPolygon", ps) : ps \in SeqsFromTo(FixPolygons, 0, MaxPolys) }
  \cup { Geom("dict", t, << >>) :
           t \in {"Point", "LineString", "MultiPoint", "MultiLineString",
                  "GeometryCollection"} }
  \cup { Geom("dict", "polygon", << << RingCW >> >>),
         Geom("null", "", << >>), Geom("notype", "", << >>) }

\* The parser is not used.
ParserIdle ==
  /\ limit = NoLimit
  /\ require_geometry = TRUE
  /\ geometry_types = ALL
  /\ features = << >>
  /\ json_data = NoDoc
  /\ pc = "idle"
  /\ item_index = 0
  /\ calls = << >>
  /\ parse_failed = FALSE
  /\ parsed = << >>
  /\ main_fixed = 0
  /\ save_fixed = 0
  /\ written = FALSE
  /\ output = << >>

InitFix ==
  /\ ParserIdle
  /\ PolyIdle
  /\ fix_arg \in FixGeometries
  /\ fix_calls = 0
  /\ fix_ret = << >>
  /\ fix_history = << fix_arg >>

\* fix_geometry_orientation(fix_arg): the argument is changed in place.
call_fix_geometry_orientation ==
  /\ fix_calls < MaxFixCalls
  /\ LET r == fix_geometry_orientation(fix_arg)
     IN /\ fix_arg' = r.geometry
        /\ fix_ret' = Append(fix_ret, r.changed)
        /\ fix_history' = Append(fix_history, r.geometry)
  /\ fix_calls' = fix_calls + 1
  /\ UNCHANGED << parser_vars, poly_vars >>

NextFix == call_fix_geometry_orientation

SpecFix == InitFix /\ [][NextFix]_vars

\* ------------------------- fix_polygon_orientation, called alone, by ring
Coords == 0..MaxCoord

Points == Coords \X Coords

\* Every ring of 3..MaxRingLen points with coordinates in Coords.
Rings == SeqsFromTo(Points, 3, MaxRingLen)

InitPolygon ==
  /\ ParserIdle
  /\ fix_arg = NoGeometry
  /\ fix_calls = 0
  /\ fix_ret = << >>
  /\ fix_history = << >>
  /\ poly_pc = "exterior"
  /\ ring_no = 0
  /\ ring_before = << >>
  /\ ring_after = << >>
  /\ changed = FALSE
  /\ any_reversed = FALSE
  /\ poly_ret = FALSE

\* The visit of ring number n (1 = coordinates[0]) of the argument.
visit_ring(ring, n) ==
  /\ ring_no' = n
  /\ ring_before' = ring
  /\ ring_after' = (IF WrongOrientation(ring, n) THEN reverse_ring(ring) ELSE ring)
  /\ changed' = (changed \/ WrongOrientation(ring, n))
  /\ any_reversed' = (any_reversed \/ ring_after' # ring)
  /\ poly_pc' = "visited"

\* 'area = calculate_area(coordinates[0]); if area < 0: ...'
polygon_exterior ==
  /\ poly_pc = "exterior"
  /\ \E ring \in Rings : visit_ring(ring, 1)
  /\ poly_ret' = poly_ret
  /\ UNCHANGED << parser_vars, fix_vars >>

\* The head of 'for ring in coordinates[1:]': the ring visited last is left
\* behind; only `changed` is carried on.
polygon_loop_head ==
  /\ poly_pc = "visited"
  /\ poly_pc' = "holes"
  /\ ring_before' = << >>
  /\ ring_after' = << >>
  /\ UNCHANGED << ring_no, changed, any_reversed, poly_ret >>
  /\ UNCHANGED << parser_vars, fix_vars >>

\* One iteration of 'for ring in coordinates[1:]'.
polygon_hole ==
  /\ poly_pc = "holes"
  /\ ring_no < MaxRings
  /\ \E ring \in Rings : visit_ring(ring, ring_no + 1)
  /\ poly_ret' = poly_ret
  /\ UNCHANGED << parser_vars, fix_vars >>

\* 'return changed', after the last ring.
polygon_return ==
  /\ poly_pc = "holes"
  /\ poly_pc' = "returned"
  /\ poly_ret' = changed
  /\ UNCHANGED << ring_no, ring_before, ring_after, changed, any_reversed >>
  /\ UNCHANGED << parser_vars, fix_vars >>

NextPolygon ==
  \/ polygon_exterior
  \/ polygon_loop_head
  \/ polygon_hole
  \/ polygon_return

SpecPolygon == InitPolygon /\ [][NextPolygon]_vars

\* ================================================================= claims
\* Twice the shoelace signed area of the claims: the sum over the first n
\* consecutive pairs of x[i]*y[i+1] - x[i+1]*y[i], without wraparound.
RECURSIVE Shoelace2(_, _)
Shoelace2(ring, n) ==
  IF n = 0 THEN 0
  ELSE Shoelace2(ring, n - 1)
       + (ring[n][1] * ring[n + 1][2] - ring[n + 1][1] * ring[n][2])

SignedArea2(ring) == Shoelace2(ring, Len(ring) - 1)

\* The ring has the wrong winding for its place: clockwise as ring 0,
\* counterclockwise as a later ring.
WrongSign(ring, n) ==
  IF n = 1 THEN SignedArea2(ring) < 0 ELSE SignedArea2(ring) > 0

IsReverseOf(a, b) ==
  Len(a) = Len(b) /\ \A j \in 1..Len(a) : a[j] = b[Len(b) + 1 - j]

\* C5: after fix_polygon_orientation the signed area of ring 0 is >= 0 and
\* of every later ring <= 0; a ring of the wrong sign is reversed, a ring of
\* zero area or of the right sign keeps its vertex order; the returned flag
\* is true iff at least one ring was reversed.
C5_RingOrientation ==
  /\ poly_pc = "visited" =>
       /\ ring_no = 1 => SignedArea2(ring_after) >= 0
       /\ ring_no > 1 => SignedArea2(ring_after) <= 0
       /\ WrongSign(ring_before, ring_no) => IsReverseOf(ring_after, ring_before)
       /\ ~WrongSign(ring_before, ring_no) => ring_after = ring_before
  /\ poly_pc = "returned" => (poly_ret <=> any_reversed)

\* A counterclockwise ring was visited as a hole and reversed.
C5_Witness ==
  /\ poly_pc = "visited"
  /\ ring_no > 1
  /\ SignedArea2(ring_before) > 0
  /\ ring_after # ring_before

IsPolygonal(g) == g.k = "dict" /\ g.type \in {"Polygon", "MultiPolygon"}

\* C6: fix_geometry_orientation is idempotent: every call after the first
\* returns false and leaves the coordinates the first call produced; on a
\* geometry of another kind, a missing or an empty geometry every call
\* returns false and changes nothing.
C6_Idempotent ==
  /\ \A n \in 2..Len(fix_ret) :
       fix_ret[n] = FALSE /\ fix_history[n + 1] = fix_history[2]
  /\ ~IsPolygonal(fix_history[1]) =>
       \A n \in 1..Len(fix_ret) :
         fix_ret[n] = FALSE /\ fix_history[n + 1] = fix_history[1]

\* A MultiPolygon that the first call changed has been fixed twice.
C6_Witness ==
  /\ fix_calls >= 2
  /\ fix_history[1].type = "MultiPolygon"
  /\ fix_ret[1] = TRUE
  /\ fix_history[2] # fix_history[1]

\* ------------------------------------------------ claims on the pipeline
\* The seven canonical kind names, upper-cased, with their single flag bit.
CanonicalKinds ==
  [ POINT |-> 1, LINESTRING |-> 2, POLYGON |-> 4, MULTIPOINT |-> 8,
    MULTILINESTRING |-> 16, MULTIPOLYGON |-> 32, GEOMETRYCOLLECTION |-> 64 ]

ParseReturned == pc \in {"fix", "save", "done"}

IsDataArray(doc) == doc.k = "dict" /\ doc.has_data /\ doc.data_k = "list"

\* The feature passes is_valid_feature (it returns, and returns true).
Passes(f) == ~is_valid_feature_raises(f) /\ is_valid_feature(f)

RECURSIVE Passing(_)
Passing(seq) ==
  IF seq = << >> THEN << >>
  ELSE (IF Passes(Head(seq)) THEN << Head(seq) >> ELSE << >>) \o Passing(Tail(seq))

\* What one record contributes to the reference sequence of C2.
Contribution(r) ==
  IF r.k # "dict" \/ ~r.has \/ ~is_valid_geojson(r.pg) THEN << >>
  ELSE IF r.pg.type = "Feature" THEN (IF Passes(r.pg) THEN << r.pg >> ELSE << >>)
  ELSE IF r.pg.type = "FeatureCollection" THEN Passing(r.pg.features)
  ELSE << >>

RECURSIVE Reference(_)
Reference(data) ==
  IF data = << >> THEN << >>
  ELSE Contribution(Head(data)) \o Reference(Tail(data))

\* C1: whenever a limit is set (any integer, 0 included), the number of
\* accumulated features, and of written features, is at most the limit.
C1_LimitBound ==
  limit.set => Len(features) <= limit.val /\ Len(output) <= limit.val

\* C2: for a {data: [...]} document, the features parse_file accumulated are
\* the reference sequence when no limit is set, and its first L elements
\* when a limit L is set.
C2_PrefixOfReference ==
  (ParseReturned /\ IsDataArray(json_data)) =>
    parsed = (IF limit.set THEN Take(Reference(json_data.data), limit.val)
              ELSE Reference(json_data.data))

\* The single flag bit of a canonical kind name, 0 for any other name.
KindBit(name) ==
  IF upper[name] \in DOMAIN CanonicalKinds THEN CanonicalKinds[upper[name]] ELSE 0

\* C3: every accepted feature with a non-null geometry has a geometry kind
\* whose single flag bit is set in the configured geometry_types.
C3_AcceptedKindSelected ==
  \A n \in 1..Len(features) :
    has_geometry(features[n]) =>
      /\ KindBit(features[n].geometry.type) # 0
      /\ BitAnd(geometry_types, KindBit(features[n].geometry.type)) # 0

NonCanonicalNames == {name \in TypeNames : upper[name] \notin DOMAIN CanonicalKinds}

\* C4: a feature whose geometry type name is none of the seven canonical
\* kind names (case-insensitively) is rejected under every configured mask:
\* no such feature is ever accumulated.
C4_UnknownNameRejected ==
  \A name \in NonCanonicalNames :
    \A n \in 1..Len(features) :
      features[n].geometry.k = "dict" => features[n].geometry.type # name

\* C7: the fixed-count save_geojson computes equals the number of extracted
\* features whose geometry differs from the one of the input document.
C7_FixedCountReported ==
  written =>
    save_fixed = Cardinality({n \in 1..Len(parsed) :
                                output[n].geometry # parsed[n].geometry})

\* C8: after a parse_file failure no output is written.
C8_NoOutputAfterFailure == parse_failed => ~written

\* The per-item problems of C9 in a feature.
BadFeature(f) ==
  \/ ~f.dict
  \/ f.type = ""
  \/ ~f.props
  \/ f.geometry.k \in {"scalar", "notype"}
  \/ (f.geometry.k = "dict" /\ upper[f.geometry.type] \notin DOMAIN CanonicalKinds)

\* The per-item problems of C9 in a record.
BadRecord(r) ==
  \/ r.k # "dict"
  \/ (r.has /\ ~is_valid_geojson(r.pg))
  \/ (r.has /\ r.pg.type = "Feature" /\ BadFeature(r.pg))

RECURSIVE GoodFeatures(_)
GoodFeatures(seq) ==
  IF seq = << >> THEN << >>
  ELSE (IF BadFeature(Head(seq)) THEN << >> ELSE << Head(seq) >>)
       \o GoodFeatures(Tail(seq))

RECURSIVE WithoutBadItems(_)
\* The `data` array with every bad item removed.
WithoutBadItems(data) ==
  IF data = << >> THEN << >>
  ELSE LET r == Head(data)
       IN (IF BadRecord(r) THEN << >>
           ELSE IF r.has /\ r.pg.type = "FeatureCollection"
             THEN << [r EXCEPT !.pg.features = GoodFeatures(r.pg.features)] >>
           ELSE << r >>)
          \o WithoutBadItems(Tail(data))

RECURSIVE ExtractAll(_, _)
\* The features the loop of parse_file accumulates over an array.
ExtractAll(feats, data) ==
  IF data = << >> \/ limit_reached(feats) THEN feats
  ELSE ExtractAll(extract_features(feats, Head(data)).features, Tail(data))

\* C9: a bad item of a `data` array is skipped silently: parse_file does not
\* fail, and the accumulated features are those of the array without its
\* bad items.
C9_BadItemsSkipped ==
  (ParseReturned /\ IsDataArray(json_data)) =>
    /\ ~parse_failed
    /\ parsed = ExtractAll(<< >>, WithoutBadItems(json_data.data))

\* C10: when parse_file has returned, extract_features was called on the
\* elements of a `data` sequence in order (all of them unless the limit was
\* reached) and never on the document; for every other document it was
\* called exactly once, on the document itself.
C10_Dispatch ==
  (ParseReturned /\ json_data.k # "unreadable") =>
    IF IsDataArray(json_data)
    THEN /\ calls = [n \in 1..Len(calls) |-> n]
         /\ Len(calls) < Len(json_data.data) => limit_reached(parsed)
    ELSE calls = << 0 >>

====
